---------------------------- MODULE Spec2Model ----------------------------
(***************************************************************************)
(* Ninuki (capture five-in-a-row) GTP engine: the live board held by the   *)
(* GtpConnection, the commands that read or change it (play, genmove,      *)
(* boardsize, the capture count query, solve with its alpha-beta search),  *)
(* get_cmd from the line read to the handler, the rules queries (legal     *)
(* moves, final result) on boards of every size, the coordinate text       *)
(* conversions (src/assignment2/gtp_connection.py) and the undo sketched   *)
(* in src/assignment2/Ninuki.py.                                           *)
(*                                                                         *)
(* board.py and board_base.py are not part of the sources; the Board       *)
(* operations (play_move, simulate_move, get_empty_points,                 *)
(* detect_five_in_a_row, get_captures, copy, heuristicEvaluation) follow   *)
(* section 4.1-4.3 of the specification.                                   *)
(***************************************************************************)
EXTENDS Integers, Sequences, FiniteSets, TLC

VARIABLES
    board,          \* self.board: [grid, captures, current_player]
    moves_played,   \* length of the board's move history
    best_move,      \* self.board.best_move, written by run_alphaBeta
    running,        \* FALSE once an exception has left start_connection
    out,            \* the last command and what it answered on stdout
    trace,          \* what the last search did (observation of run_alphaBeta)
    conv            \* a coordinate being converted to text and back, or the
                    \* size and the stone of a board of another size

vars == <<board, moves_played, best_move, running, out, trace, conv>>

-----------------------------------------------------------------------------
(* Colours and points                                                      *)

EMPTY == "."
BLACK == "X"
WHITE == "O"
BORDER == "#"

opponent(c) == IF c = BLACK THEN WHITE ELSE BLACK

\* Side length of the board the engine is constructed with.
DEFAULT_SIZE == 5

\* Bound: play commands accepted after the opening.
MaxFreeMoves == 4

size == DEFAULT_SIZE
NS == size + 1

\* board_base: the largest supported side length and the pass sentinel.
MAXSIZE == 25
PASS == 0

coord_to_point(row, col) == NS * row + col

\* (PASS, PASS) for PASS, else divmod(point, boardsize + 1)
point_to_coord(point, boardsize) ==
    IF point = PASS THEN <<PASS, PASS>>
    ELSE <<point \div (boardsize + 1), point % (boardsize + 1)>>

Points == { coord_to_point(r, c) : r \in 1..size, c \in 1..size }

\* The four line directions; a step off the board lands on a border cell.
Dirs == {1, NS, NS + 1, NS - 1}
AllDirs == Dirs \cup { 0 - d : d \in Dirs }

Cell(grid, p) == IF p \in Points THEN grid[p] ELSE BORDER

NoMove == 0

-----------------------------------------------------------------------------
(* Board                                                                   *)

EmptyBoard ==
    [ grid |-> [p \in Points |-> EMPTY],
      captures |-> [c \in {BLACK, WHITE} |-> 0],
      current_player |-> BLACK ]

get_empty_points(b) == { p \in Points : b.grid[p] = EMPTY }

get_captures(b, c) == b.captures[c]

\* Directions in which a stone of colour c at p brackets exactly two
\* opponent stones: c opp opp c.
CaptureDirs(grid, p, c) ==
    { d \in AllDirs : /\ Cell(grid, p + d) = opponent(c)
                      /\ Cell(grid, p + 2 * d) = opponent(c)
                      /\ Cell(grid, p + 3 * d) = c }

\* play_move on an empty point: place, capture in every direction, switch player.
play_move(b, p, c) ==
    LET placed == [b.grid EXCEPT ![p] = c]
        ds == CaptureDirs(placed, p, c)
        gone == { p + d : d \in ds } \cup { p + 2 * d : d \in ds }
    IN  [ grid |-> [q \in Points |-> IF q \in gone THEN EMPTY ELSE placed[q]],
          captures |-> [b.captures EXCEPT ![c] = @ + 2 * Cardinality(ds)],
          current_player |-> opponent(c) ]

\* GoBoard.play_move as play_cmd calls it: False and no change when the
\* point is not empty, else the stone is played.
board_play_move(b, p, c) ==
    IF Cell(b.grid, p) # EMPTY
    THEN [ok |-> FALSE, board |-> b]
    ELSE [ok |-> TRUE, board |-> play_move(b, p, c)]

\* GoBoard.reset(size): fails outside [2, MAXSIZE] before anything is
\* changed, else an empty board with cleared counters and history.
reset(b, n) ==
    IF ~(2 <= n /\ n <= MAXSIZE)
    THEN [ok |-> FALSE, board |-> b]
    ELSE [ok |-> TRUE, board |-> EmptyBoard]

\* undoMove as sketched in Ninuki.py: pop the last location, empty it and
\* give the move to the opponent of the stone that stood there.
undoMove(b, moves) ==
    LET location == moves[Len(moves)]
        color == b.grid[location]
    IN  [ board |-> [b EXCEPT !.grid[location] = EMPTY,
                              !.current_player = opponent(color)],
          moves |-> SubSeq(moves, 1, Len(moves) - 1) ]

\* The search's move application on a child board.
simulate_move(b, p, c) == play_move(b, p, c)

\* The (start, direction) pairs whose five cells all lie on the board.
FiveStarts ==
    { pd \in Points \X Dirs : \A k \in 1..4 : pd[1] + k * pd[2] \in Points }

\* Five consecutive stones of one colour starting at p in direction d.
FiveFrom(grid, p, d) ==
    /\ grid[p] # EMPTY
    /\ \A k \in 1..4 : grid[p + k * d] = grid[p]

HasFive(grid, c) ==
    \E pd \in FiveStarts : grid[pd[1]] = c /\ FiveFrom(grid, pd[1], pd[2])

\* Scans the points in index order and returns the colour of the first five.
detect_five_in_a_row(b) ==
    LET starts == { pd \in FiveStarts : FiveFrom(b.grid, pd[1], pd[2]) }
    IN  IF starts = {} THEN EMPTY
        ELSE b.grid[(CHOOSE pd \in starts : \A qd \in starts : pd[1] <= qd[1])[1]]

copy(b) == b

deepcopy(b) == b

-----------------------------------------------------------------------------
(* Terminal predicate, winner and leaf evaluation (gtp_connection.py)      *)

CaptureWin == 10
INFINITY == 10000

\* Mutant of CaptureResult: the threshold compared with > instead of >=.
CaptureResult_strict(b) ==
    IF get_captures(b, BLACK) > CaptureWin THEN BLACK
    ELSE IF get_captures(b, WHITE) > CaptureWin THEN WHITE
    ELSE EMPTY

\* result2 of game_over / winner / gogui_rules_final_result_cmd
CaptureResult(b) ==
    IF get_captures(b, BLACK) >= CaptureWin THEN BLACK
    ELSE IF get_captures(b, WHITE) >= CaptureWin THEN WHITE
    ELSE EMPTY

\* Mutant of game_over: the capture threshold does not end the game.
game_over_ignoring_captures(b) ==
    \/ detect_five_in_a_row(b) # EMPTY
    \/ Cardinality(get_empty_points(b)) = 0

game_over(b) ==
    LET result1 == detect_five_in_a_row(b)
        result2 == CaptureResult(b)
    IN  \/ result1 # EMPTY
        \/ result2 # EMPTY
        \/ Cardinality(get_empty_points(b)) = 0

winner(b) ==
    LET result1 == detect_five_in_a_row(b)
        result2 == CaptureResult(b)
    IN  IF result1 = BLACK \/ result2 = BLACK THEN BLACK
        ELSE IF result1 = WHITE \/ result2 = WHITE THEN WHITE
        ELSE EMPTY

\* What the rules queries read from a board: its side length, the result
\* of detect_five_in_a_row, the capture counters and the empty points.
BoardView(b) ==
    [ size |-> size, result1 |-> detect_five_in_a_row(b),
      captures |-> b.captures, empty_points |-> get_empty_points(b) ]

\* gogui_rules_final_result_cmd on what it reads from the board
gogui_rules_final_result_cmd(view) ==
    LET result1 == view.result1
        result2 == CaptureResult(view)
    IN  IF result1 = BLACK \/ result2 = BLACK THEN "black"
        ELSE IF result1 = WHITE \/ result2 = WHITE THEN "white"
        ELSE IF Cardinality(view.empty_points) = 0 THEN "draw"
        ELSE "unknown"

gogui_rules_final_result(b) == gogui_rules_final_result_cmd(BoardView(b))

staticEvaluation(state, current_player) ==
    LET win_color == winner(state)
    IN  IF win_color = current_player /\ win_color # EMPTY THEN -1000
        ELSE IF win_color = EMPTY
             THEN (IF game_over(state) THEN 0 ELSE 1)
        ELSE 10

-----------------------------------------------------------------------------
(* Move ordering                                                           *)

\* Score of a candidate: the stones of the mover next to it.
heuristicEvaluation(b, color, moves) ==
    [ m \in moves |->
        Cardinality({ d \in AllDirs : Cell(b.grid, m + d) = color }) ]

\* sorted(items, key=score, reverse=True): descending score, and the stable
\* sort keeps equal scores in insertion (ascending point) order.
\* Mutant of sorts_before: equal scores come out in descending point order,
\* as a reversed ascending sort would leave them.
sorts_before_reversed_ties(moves_dict, m, n) ==
    \/ moves_dict[m] > moves_dict[n]
    \/ moves_dict[m] = moves_dict[n] /\ m >= n

\* Whether m is not behind n in the sorted items.
sorts_before(moves_dict, m, n) ==
    \/ moves_dict[m] > moves_dict[n]
    \/ moves_dict[m] = moves_dict[n] /\ m <= n

RECURSIVE SortedMoves(_, _)
SortedMoves(moves_dict, todo) ==
    IF todo = {} THEN << >>
    ELSE LET first == CHOOSE m \in todo : \A n \in todo :
                          sorts_before(moves_dict, m, n)
         IN  <<first>> \o SortedMoves(moves_dict, todo \ {first})

ordered_moves(b, current_player) ==
    LET moves == get_empty_points(b)
    IN  SortedMoves(heuristicEvaluation(b, current_player, moves), moves)

-----------------------------------------------------------------------------
(* Coordinates as text                                                     *)

column_letters ==
    << "A", "B", "C", "D", "E", "F", "G", "H", "J", "K", "L", "M", "N",
       "O", "P", "Q", "R", "S", "T", "U", "V", "W", "X", "Y", "Z" >>

\* The marker for a raised ValueError.
ValueError == "ValueError"

lower_alphabet == "abcdefghijklmnopqrstuvwxyz"
upper_alphabet == "ABCDEFGHIJKLMNOPQRSTUVWXYZ"
digits == "0123456789"

\* The characters of text, each with its 1-based position.
Positions(text) ==
    [ ch \in { SubSeq(text, i, i) : i \in 1..Len(text) } |->
        CHOOSE i \in 1..Len(text) : SubSeq(text, i, i) = ch ]

lower_positions == Positions(lower_alphabet)
upper_positions == Positions(upper_alphabet)
digit_positions == Positions(digits)

\* 1-based position of the character ch in a table of positions, 0 when absent.
IndexOf(ch, positions) ==
    IF ch \in DOMAIN positions THEN positions[ch] ELSE 0

\* str.lower()
RECURSIVE lower(_)
lower(s) ==
    IF Len(s) = 0 THEN ""
    ELSE LET ch == SubSeq(s, 1, 1)
             i == IndexOf(ch, upper_positions)
         IN  (IF i > 0 THEN SubSeq(lower_alphabet, i, i) ELSE ch)
             \o lower(SubSeq(s, 2, Len(s)))

\* Value of a text of decimal digits.
RECURSIVE DigitsValue(_)
DigitsValue(s) ==
    IF Len(s) = 0 THEN 0
    ELSE 10 * DigitsValue(SubSeq(s, 1, Len(s) - 1))
         + (IndexOf(SubSeq(s, Len(s), Len(s)), digit_positions) - 1)

IsDigits(s) ==
    /\ Len(s) > 0
    /\ \A i \in 1..Len(s) : IndexOf(SubSeq(s, i, i), digit_positions) > 0

\* int(s): an optional sign and decimal digits, anything else a ValueError.
int(s) ==
    LET signed == Len(s) > 0 /\ SubSeq(s, 1, 1) \in {"-", "+"}
        body == IF signed THEN SubSeq(s, 2, Len(s)) ELSE s
    IN  IF ~IsDigits(body) THEN [ok |-> FALSE, value |-> 0]
        ELSE [ok |-> TRUE,
              value |-> IF signed /\ SubSeq(s, 1, 1) = "-"
                        THEN 0 - DigitsValue(body) ELSE DigitsValue(body)]

\* column_letters[col - 1] + str(row); index -1 is the last letter
format_point(move) ==
    LET row == move[1]
        col == move[2]
    IN  IF move[1] = PASS THEN "PASS"
        ELSE IF ~(0 <= row /\ row < MAXSIZE) \/ ~(0 <= col /\ col < MAXSIZE)
        THEN ValueError
        ELSE (IF col = 0 THEN "Z" ELSE column_letters[col]) \o ToString(row)

\* format_point(move).lower()
format_point_lower(move) == lower(format_point(move))

\* The result of move_to_coord: a coordinate, or the message of the
\* ValueError it raised.
Coord(row, col) == [ok |-> TRUE, coord |-> <<row, col>>, error |-> ""]
CoordError(msg) == [ok |-> FALSE, coord |-> <<0, 0>>, error |-> msg]

\* Mutant of move_to_coord: a coordinate beyond the board is pulled back to
\* the edge instead of being refused.
move_to_coord_clamped(point_str, board_size) ==
    LET s == lower(point_str)
        col_c == SubSeq(s, 1, 1)
        letter == IndexOf(col_c, lower_positions)
        row == int(SubSeq(s, 2, Len(s)))
        clamp(n) == IF n > board_size THEN board_size ELSE n
    IN  IF letter = 0 \/ col_c = "i" \/ ~row.ok \/ row.value < 1
        THEN CoordError("wrong coordinate")
        ELSE Coord(clamp(row.value),
                   clamp(IF letter < 9 THEN letter ELSE letter - 1))

move_to_coord(point_str, board_size) ==
    IF ~(2 <= board_size /\ board_size <= MAXSIZE)
    THEN CoordError("board_size out of range")
    ELSE LET s == lower(point_str)
         IN  IF s = "pass" THEN Coord(PASS, PASS)
             ELSE LET col_c == SubSeq(s, 1, 1)   \* s[0]; "" raises IndexError
                      letter == IndexOf(col_c, lower_positions)
                      \* ord(col_c) - ord("a"), plus one before "i"
                      col == IF letter < 9 THEN letter ELSE letter - 1
                      row == int(SubSeq(s, 2, Len(s)))
                  IN  IF Len(s) = 0 \/ letter = 0 \/ col_c = "i"
                         \/ ~row.ok \/ row.value < 1
                      THEN CoordError("wrong coordinate")
                      ELSE IF ~(col <= board_size /\ row.value <= board_size)
                      THEN CoordError("wrong coordinate")
                      ELSE Coord(row.value, col)

\* color_to_int for "b" and "w"
color_to_int(c) == IF c = "b" THEN BLACK ELSE WHITE

-----------------------------------------------------------------------------
(* Alpha-beta search                                                       *)

\* What a search has done so far; bm is self.board.best_move, the rest
\* observes the frames: bmd the depth of the frame that wrote bm last,
\* placer the colour that placed the stone leading to the current frame,
\* movers the (parent colour, child colour) pairs of frames that place
\* stones, evalOn the values of game_over at the calls of staticEvaluation,
\* expanded the number of simulated moves, deepest the depth of the
\* deepest frame, isolated whether every expansion left its parent's board
\* as it was, rank the Rank of the frame that is expanding, descends whether
\* every frame below the root that expands moves has a positive Rank
\* smaller than its parent's, late whether a frame went on after a child
\* value that was not below its beta, cutoffs the (beta, returned value)
\* pairs of the frames that returned at line 553 or 556, pruned the number
\* of ordered moves those frames left unexpanded, inorder whether every
\* move was expanded after a move of higher score or of equal score and
\* smaller index, windows whether every expanding frame was entered with
\* alpha < beta, failhard whether every expanding frame returned a value
\* within the window it was entered with, being beta after a cutoff and its
\* last alpha otherwise, alphaok whether alpha changed exactly when a child
\* value exceeded it, and then to that value, shown the number of calls of
\* showcopy_cmd, each of which writes a response.
NoSearch ==
    [ bm |-> NoMove, bmd |-> -1, placer |-> EMPTY, movers |-> {},
      evalOn |-> {}, expanded |-> 0, deepest |-> 0, isolated |-> TRUE,
      descends |-> TRUE, rank |-> 0, late |-> FALSE, cutoffs |-> {},
      pruned |-> 0, inorder |-> TRUE, windows |-> TRUE, failhard |-> TRUE,
      alphaok |-> TRUE, shown |-> 0 ]

\* A measure of how much play is left: the empty points plus what each
\* colour may still capture before the threshold.
Rank(b) ==
    LET left(c) == IF b.captures[c] >= CaptureWin THEN 0
                   ELSE CaptureWin - 1 - b.captures[c]
    IN  Cardinality({ p \in Points : b.grid[p] = EMPTY })
        + left(BLACK) + left(WHITE)

\* Mutant of AtLeaf: a depth-limited search that also stops two plies down.
AtLeaf_depth_limited(board_copy, depth) == depth >= 2 \/ game_over(board_copy)

\* The test of line 489 that ends the recursion.
AtLeaf(board_copy, depth) == game_over(board_copy)

\* new_board = copy.deepcopy(board_copy); new_board.simulate_move(move, current_player)
child_board(board_copy, move, current_player) ==
    simulate_move(deepcopy(board_copy), move, current_player)

\* Mutant of parent_after_expand: no deepcopy, new_board is board_copy
\* itself and simulate_move changes the parent.
parent_after_expand_aliased(board_copy, new_board) == new_board

\* board_copy once a move has been expanded: new_board is a deep copy, so
\* simulate_move on it leaves board_copy alone.
parent_after_expand(board_copy, new_board) == board_copy

\* The colour handed to the child frame (line 525).
child_player(new_board) == opponent(new_board.current_player)

\* Mutant of child_window: the bounds negated but not swapped.
child_window_unswapped(alpha, beta) == [ alpha |-> 0 - alpha, beta |-> 0 - beta ]

\* The window handed to the child frame: (-beta, -alpha) (line 525).
child_window(alpha, beta) == [ alpha |-> 0 - beta, beta |-> 0 - alpha ]

\* Mutant of raises_alpha: the comparison turned around.
raises_alpha_reversed(value, alpha) == value < alpha

\* if value > alpha (line 533)
raises_alpha(value, alpha) == value > alpha

\* alpha = value (line 535)
raised_alpha(value, alpha) == value

\* Mutant of beta_cutoff: a child value equal to beta does not cut off.
beta_cutoff_strict(value, beta) == value > beta

\* if value >= beta (line 546)
beta_cutoff(value, beta) == value >= beta

\* Mutant of cutoff_value: fail-soft, the child value is returned.
cutoff_value_fail_soft(value, beta) == value

\* return beta (lines 553 and 556)
cutoff_value(value, beta) == beta

RECURSIVE run_alphaBeta(_, _, _, _, _, _)
RECURSIVE alphaBeta_loop(_, _, _, _, _, _, _, _)

\* The for loop of lines 510-565 from the i-th ordered move on.
alphaBeta_loop(board_copy, depth, alpha, beta, current_player, moves, i, g) ==
    IF i > Len(moves)
    THEN [ value |-> alpha, tuple |-> (depth = 0),
           move |-> IF depth = 0 THEN g.bm ELSE NoMove, g |-> g,
           cut |-> FALSE, alpha |-> alpha ]
    ELSE LET move == moves[i]
             \* the scores of this move and of the one expanded before it
             score == heuristicEvaluation(board_copy, current_player,
                          {move} \cup (IF i > 1 THEN {moves[i - 1]} ELSE {}))
             inorder == \/ i = 1
                        \/ score[moves[i - 1]] > score[move]
                        \/ score[moves[i - 1]] = score[move] /\ moves[i - 1] < move
             new_board == child_board(board_copy, move, current_player)
             w == child_window(alpha, beta)
             parent == parent_after_expand(board_copy, new_board)
             isolated == parent = board_copy
             \* the recursive call of line 525, evaluated once
             called == { run_alphaBeta(new_board, depth + 1, w.alpha, w.beta,
                                child_player(new_board),
                                [g EXCEPT !.expanded = @ + 1,
                                          !.placer = current_player,
                                          !.isolated = (@ /\ isolated),
                                          !.inorder = (@ /\ inorder),
                                          \* print(self.showcopy_cmd(board_copy))
                                          !.shown = @ + 1]) }
             \* lines 525-556 once the call has returned r
             returned(r) ==
                 LET value == 0 - r.value
                     raised == raises_alpha(value, alpha)
                     alpha2 == IF raised THEN raised_alpha(value, alpha) ELSE alpha
                     alphaok == IF value > alpha THEN alpha2 = value
                                ELSE alpha2 = alpha
                     \* self.board.best_move = move, in whichever frame raises
                     \* alpha; print(self.showcopy_cmd(new_board)) in either case
                     g2 == IF raised
                           THEN [r.g EXCEPT !.bm = move, !.bmd = depth,
                                            !.rank = g.rank,
                                            !.alphaok = (@ /\ alphaok),
                                            !.shown = @ + 1]
                           ELSE [r.g EXCEPT !.rank = g.rank,
                                            !.alphaok = (@ /\ alphaok),
                                            !.shown = @ + 1]
                 IN  IF beta_cutoff(value, beta)
                     THEN [ value |-> cutoff_value(value, beta),
                            tuple |-> (depth = 0),
                            move |-> IF depth = 0 THEN move ELSE NoMove,
                            g |-> [g2 EXCEPT
                                      !.cutoffs = @ \cup
                                          {<<beta, cutoff_value(value, beta)>>},
                                      !.pruned = @ + (Len(moves) - i)],
                            cut |-> TRUE, alpha |-> alpha2 ]
                     ELSE alphaBeta_loop(parent, depth, alpha2,
                                         beta, current_player, moves, i + 1,
                                         [g2 EXCEPT !.late = (@ \/ value >= beta)])
         IN  CHOOSE ret \in { returned(r) : r \in called } : TRUE

run_alphaBeta(board_copy, depth, alpha, beta, current_player, g) ==
    IF AtLeaf(board_copy, depth)
    THEN [ value |-> staticEvaluation(board_copy, current_player),
           tuple |-> FALSE, move |-> NoMove,
           g |-> [g EXCEPT !.evalOn = @ \cup {game_over(board_copy)},
                           !.deepest = IF depth > @ THEN depth ELSE @],
           cut |-> FALSE, alpha |-> alpha ]
    ELSE LET rank == Rank(board_copy)
             r == alphaBeta_loop(board_copy, depth, alpha, beta, current_player,
                        ordered_moves(board_copy, current_player), 1,
                        IF depth = 0 THEN [g EXCEPT !.rank = rank]
                        ELSE [g EXCEPT !.movers =
                                  @ \cup {<<g.placer, current_player>>},
                                       !.deepest = IF depth > @ THEN depth ELSE @,
                                       !.descends = (@ /\ rank < g.rank /\ rank >= 1),
                                       !.rank = rank])
             failhard(ret) == /\ alpha <= ret.value /\ ret.value <= beta
                              /\ alpha <= ret.alpha
                              /\ ret.value = IF ret.cut THEN beta ELSE ret.alpha
             \* what the loop returned, with the frame's window noted
             noted == { [ret EXCEPT !.g.windows = (@ /\ alpha < beta),
                                    !.g.failhard = (@ /\ failhard(ret))] :
                          ret \in {r} }
         IN  CHOOSE ret \in noted : TRUE

-----------------------------------------------------------------------------
(* Commands                                                                *)

\* The play commands issued before any solve: an opening of 34 moves that
\* leaves five empty points, six captured stones for black and eight for
\* white.  Each entry is <<colour, row, col>>.
CaptureRow(r) == << <<BLACK, r, 1>>, <<WHITE, r, 2>>, <<WHITE, r, 3>>, <<BLACK, r, 4>> >>
CaptureCol(c) == << <<WHITE, 1, c>>, <<BLACK, 2, c>>, <<BLACK, 3, c>>, <<WHITE, 4, c>> >>
Opening ==
    CaptureRow(1) \o CaptureRow(2) \o CaptureRow(3)
    \o CaptureCol(2) \o CaptureCol(3) \o CaptureCol(5)
    \o << <<WHITE, 5, 1>>, <<BLACK, 5, 2>>, <<BLACK, 5, 3>>, <<WHITE, 5, 4>> >>
    \o << <<BLACK, 2, 5>>, <<BLACK, 3, 2>>, <<WHITE, 3, 3>>,
          <<WHITE, 4, 1>>, <<WHITE, 5, 2>>, <<WHITE, 5, 5>> >>

\* The arguments of a play command for an entry of the opening.
PlayArgs(entry) ==
    << IF entry[1] = BLACK THEN "b" ELSE "w", format_point(<<entry[2], entry[3]>>) >>

\* Play commands that name no playable point: a colour that is neither b
\* nor w, the column letter i, columns and rows beyond the board, row 0, a
\* row that is no number, a missing row, a missing column letter.
BadPlayArgs ==
    { <<"x", "a1">>, <<"e", "C3">>, <<"b", "i3">>, <<"w", "F1">>, <<"b", "a6">>,
      <<"w", "a0">>, <<"b", "a1x">>, <<"w", "a">>, <<"b", "33">>, <<"w", "z9">> }

\* What the controller sends with play: the opening (interleaved with
\* unusable plays), then either colour on any empty point and on the first
\* and the last point that hold a stone.
FreePlayPoints ==
    LET stones == Points \ get_empty_points(board)
    IN  get_empty_points(board)
        \cup { p \in stones : \A q \in stones : p <= q }
        \cup { p \in stones : \A q \in stones : p >= q }

PlayInputs ==
    IF moves_played < Len(Opening)
    THEN { PlayArgs(Opening[moves_played + 1]) } \cup BadPlayArgs
    ELSE { <<c, format_point(point_to_coord(p, size))>> : c \in {"b", "w"}, p \in FreePlayPoints }

NoTrace ==
    [ called |-> FALSE,
      ret |-> [ value |-> 0, tuple |-> FALSE, move |-> NoMove, g |-> NoSearch,
                cut |-> FALSE, alpha |-> 0 ] ]

NoConv == [ step |-> "none", size |-> 0, row |-> 0, col |-> 0, text |-> "", back |-> CoordError("") ]

\* self.respond(...): "= " and the text.  word is the answer, move the point
\* that goes with it, reason what follows 'illegal move: "<args>"'.
Response(cmd, word, move) ==
    [ cmd |-> cmd, status |-> "=", word |-> word, move |-> move, reason |-> "" ]

\* self.respond('illegal move: "{} {}" <reason>')
IllegalMove(cmd, reason) ==
    [ cmd |-> cmd, status |-> "=", word |-> "illegal move", move |-> "", reason |-> reason ]

\* self.error(...): "? " and the text
Error(cmd, msg) ==
    [ cmd |-> cmd, status |-> "?", word |-> msg, move |-> "", reason |-> "" ]

\* An exception left the handler: get_cmd re-raises it and nothing is
\* written to stdout.
Fault(cmd) ==
    [ cmd |-> cmd, status |-> "", word |-> "fault", move |-> "", reason |-> "" ]

\* play_cmd(args) on board b: the board afterwards, whether a stone was
\* played and the response.
play_cmd(b, args) ==
    LET board_color == lower(args[1])
        board_move == args[2]
        coord == move_to_coord(args[2], size)
        move == coord_to_point(coord.coord[1], coord.coord[2])
        color == color_to_int(board_color)
        played == board_play_move(b, move, color)
    IN  IF board_color \notin {"b", "w"}
        THEN [board |-> b, played |-> FALSE, out |-> IllegalMove("play", "wrong color")]
        ELSE IF ~coord.ok
        THEN [board |-> b, played |-> FALSE, out |-> IllegalMove("play", coord.error)]
        ELSE IF ~played.ok
        THEN [board |-> b, played |-> FALSE, out |-> IllegalMove("play", "occupied")]
        ELSE [board |-> played.board, played |-> TRUE,
              out |-> IF Len(args) > 2 /\ args[3] = "print_move"
                      THEN Response("play", lower(format_point(coord.coord)), "")
                      ELSE Response("play", "", "")]

\* play <colour> <point>
PlayCmd(color_arg, point_arg) ==
    LET r == play_cmd(board, <<color_arg, point_arg>>)
    IN  /\ running
        /\ moves_played < Len(Opening) + MaxFreeMoves
        /\ board' = r.board
        /\ moves_played' = IF r.played THEN moves_played + 1 ELSE moves_played
        /\ out' = r.out
        /\ trace' = NoTrace
        /\ UNCHANGED <<best_move, running, conv>>

\* genmove_cmd(args) on board b when rng.choice falls on move: the board
\* afterwards, whether a stone was played and the response.
genmove_cmd(b, color_arg, move) ==
    LET board_color == lower(color_arg)
        color == color_to_int(board_color)
        result1 == detect_five_in_a_row(b)
        result2 == IF get_captures(b, opponent(color)) >= CaptureWin
                   THEN opponent(color) ELSE EMPTY
        legal_moves == get_empty_points(b)
        move_as_string == format_point(point_to_coord(move, size))
        r == play_cmd(b, <<board_color, move_as_string, "print_move">>)
    IN  IF result1 = opponent(color) \/ result2 = opponent(color)
        THEN [board |-> b, played |-> FALSE, out |-> Response("genmove", "resign", "")]
        ELSE IF Cardinality(legal_moves) = 0
        THEN [board |-> b, played |-> FALSE, out |-> Response("genmove", "pass", "")]
        ELSE [r EXCEPT !.out.cmd = "genmove"]

\* The points rng.choice can fall on; the choice plays no part when there
\* is none.
genmove_choices(b) ==
    IF get_empty_points(b) = {} THEN {NoMove} ELSE get_empty_points(b)

\* genmove <colour>
GenmoveCmd(color_arg) ==
    /\ running
    /\ moves_played >= Len(Opening)
    /\ moves_played < Len(Opening) + MaxFreeMoves
    /\ \E move \in genmove_choices(board) :
          LET r == genmove_cmd(board, color_arg, move)
          IN  /\ board' = r.board
              /\ moves_played' = IF r.played THEN moves_played + 1 ELSE moves_played
              /\ out' = r.out
    /\ trace' = NoTrace
    /\ UNCHANGED <<best_move, running, conv>>

\* What the controller sends with boardsize: the size the board already
\* has (before the opening is over), sizes out of range and texts that are
\* no integer.
BadBoardsizeArgs == { "1", "26", "0", "-3", "abc", "5x" }

BoardsizeInputs ==
    (IF moves_played < Len(Opening) THEN { ToString(DEFAULT_SIZE) } ELSE {})
    \cup BadBoardsizeArgs

\* Mutant of boardsize_arg: a text that is no integer stands for the
\* default size.
boardsize_arg_defaulted(arg) ==
    IF int(arg).ok THEN int(arg) ELSE [ok |-> TRUE, value |-> DEFAULT_SIZE]

\* int(args[0])
boardsize_arg(arg) == int(arg)

\* boardsize_cmd(args): the board and the history length afterwards, the
\* response, and whether an exception left the handler (the ValueError of
\* int() or the failure of reset).
boardsize_cmd(b, history, arg) ==
    LET n == boardsize_arg(arg)
        r == reset(b, n.value)
    IN  IF n.ok /\ r.ok
        THEN [board |-> r.board, moves_played |-> 0, raised |-> FALSE,
              out |-> Response("boardsize", "", "")]
        ELSE [board |-> IF n.ok THEN r.board ELSE b, moves_played |-> history,
              raised |-> TRUE, out |-> Fault("boardsize")]

\* boardsize <n>
BoardsizeCmd(arg) ==
    LET r == boardsize_cmd(board, moves_played, arg)
    IN  /\ running
        /\ board' = r.board
        /\ moves_played' = r.moves_played
        /\ out' = r.out
        /\ running' = ~r.raised
        /\ trace' = NoTrace
        /\ UNCHANGED <<best_move, conv>>

\* Mutant of captured_count: black's counter first.
captured_count_black_first(b) ==
    ToString(get_captures(b, BLACK)) \o " " \o ToString(get_captures(b, WHITE))

\* str(get_captures(WHITE)) + ' ' + str(get_captures(BLACK))
captured_count(b) ==
    ToString(get_captures(b, WHITE)) \o " " \o ToString(get_captures(b, BLACK))

\* gogui-rules_captured_count
CapturedCountCmd ==
    /\ running
    /\ out' = Response("gogui-rules_captured_count", captured_count(board), "")
    /\ trace' = NoTrace
    /\ UNCHANGED <<board, moves_played, best_move, running, conv>>

\* self.respond(" ".join(sorted(gtp_moves))): the response lists the texts
\* in sorted order; moves holds them as a set.
LegalMoves(cmd, gtp_moves) ==
    [ cmd |-> cmd, status |-> "=", word |-> "", move |-> "", reason |-> "",
      moves |-> gtp_moves ]

\* gogui_rules_legal_moves_cmd on what it reads from the board: an empty
\* list once a five or ten captures are on the board, else every empty
\* point as text; the ValueError of format_point leaves the handler.
gogui_rules_legal_moves_cmd(view) ==
    IF \/ view.result1 # EMPTY
       \/ get_captures(view, BLACK) >= CaptureWin
       \/ get_captures(view, WHITE) >= CaptureWin
    THEN LegalMoves("gogui-rules_legal_moves", {})
    ELSE LET legal_moves == view.empty_points
             gtp_moves == { format_point(point_to_coord(move, view.size)) :
                               move \in legal_moves }
         IN  IF ValueError \in gtp_moves
             THEN Fault("gogui-rules_legal_moves")
             ELSE LegalMoves("gogui-rules_legal_moves", gtp_moves)

gogui_rules_legal_moves(b) == gogui_rules_legal_moves_cmd(BoardView(b))

\* Mutant of solve_live_board: solve_cmd also plays the move it found.
solve_live_board_played(live, ret) ==
    IF ret.tuple THEN play_move(live, ret.move, live.current_player) ELSE live

\* The live board when solve_cmd ends: the search is handed root_board_copy
\* and expands deep copies, so self.board keeps its grid, counters and player.
solve_live_board(live, ret) == live

\* The text solve_cmd answers once value[1] has been read.
solve_response(live, root_board_copy, ret) ==
    LET win == winner(root_board_copy)
        best_move_string == format_point_lower(point_to_coord(ret.move, size))
    IN  IF win = live.current_player \/ win = EMPTY
        THEN IF win = EMPTY THEN Response("solve", "draw", best_move_string)
             ELSE IF live.current_player = BLACK
                  THEN Response("solve", "black", best_move_string)
                  ELSE Response("solve", "white", best_move_string)
        ELSE Response("solve", "white", "")

\* The controller asks for a solution once the opening is on the board,
\* each time right after a play command.
SolveAsked == moves_played >= Len(Opening) /\ out.cmd = "play"

SolveCmd ==
    /\ running
    /\ SolveAsked
    /\ LET root_board_copy == copy(board)
           ret == run_alphaBeta(root_board_copy, 0, 0 - INFINITY, INFINITY,
                                board.current_player,
                                [NoSearch EXCEPT !.bm = best_move])
       IN  /\ trace' = [ called |-> TRUE, ret |-> ret ]
           /\ best_move' = ret.g.bm
           /\ board' = solve_live_board(board, ret)
           /\ IF ret.tuple
              THEN /\ out' = solve_response(board, root_board_copy, ret)
                   /\ running' = running
              ELSE \* value[1] of an int: TypeError, re-raised by get_cmd
                   /\ out' = Fault("solve")
                   /\ running' = FALSE
    /\ UNCHANGED <<moves_played, conv>>

Init ==
    /\ board = EmptyBoard
    /\ moves_played = 0
    /\ best_move = NoMove
    /\ running = TRUE
    /\ out = Response("", "", "")
    /\ trace = NoTrace
    /\ conv = NoConv

Next ==
    \/ \E args \in PlayInputs : PlayCmd(args[1], args[2])
    \/ \E color_arg \in {"b", "w"} : GenmoveCmd(color_arg)
    \/ \E arg \in BoardsizeInputs : BoardsizeCmd(arg)
    \/ CapturedCountCmd
    \/ SolveCmd

Spec == Init /\ [][Next]_vars

-----------------------------------------------------------------------------
(* The coordinate conversions on their own, for every supported board size *)

\* A board size and a coordinate, on that board or beyond it.
CoordInit ==
    /\ board = EmptyBoard
    /\ moves_played = 0
    /\ best_move = NoMove
    /\ running = TRUE
    /\ out = Response("", "", "")
    /\ trace = NoTrace
    /\ conv \in { [NoConv EXCEPT !.step = "coord", !.size = n, !.row = r, !.col = k] :
                     n \in 2..MAXSIZE, r \in 1..MAXSIZE, k \in 1..MAXSIZE }

\* format_point((row, col))
FormatPoint ==
    /\ conv.step = "coord"
    /\ conv' = [conv EXCEPT !.step = "formatted",
                            !.text = format_point(<<conv.row, conv.col>>)]
    /\ UNCHANGED <<board, moves_played, best_move, running, out, trace>>

\* move_to_coord(text, size) on the text format_point produced
MoveToCoord ==
    /\ conv.step = "formatted"
    /\ conv.text # ValueError
    /\ conv' = [conv EXCEPT !.step = "parsed",
                            !.back = move_to_coord(conv.text, conv.size)]
    /\ UNCHANGED <<board, moves_played, best_move, running, out, trace>>

\* move_to_coord(text, size) on a text with the column letter i
MoveToCoordI(letter) ==
    /\ conv.step = "coord"
    /\ conv' = [conv EXCEPT !.step = "parsed_i",
                            !.text = letter \o ToString(conv.row),
                            !.back = move_to_coord(letter \o ToString(conv.row),
                                                   conv.size)]
    /\ UNCHANGED <<board, moves_played, best_move, running, out, trace>>

CoordNext ==
    \/ FormatPoint
    \/ MoveToCoord
    \/ \E letter \in {"i", "I"} : MoveToCoordI(letter)

CoordSpec == CoordInit /\ [][CoordNext]_vars

-----------------------------------------------------------------------------
(* The rules queries on boards of every supported size                     *)

\* What the rules queries read from the board after "boardsize n" and
\* "play b <row, col>": one stone can neither make a five nor capture.
SizedBoardView(n, row, col) ==
    [ size |-> n, result1 |-> EMPTY,
      captures |-> [c \in {BLACK, WHITE} |-> 0],
      empty_points |-> { (n + 1) * r + k : r \in 1..n, k \in 1..n }
                           \ { (n + 1) * row + col } ]

\* The board of the state: conv holds its size and its one stone.
SizedView == SizedBoardView(conv.size, conv.row, conv.col)

\* A board of every supported size with a black stone in one of its corners.
SizeInit ==
    /\ board = EmptyBoard
    /\ moves_played = 0
    /\ best_move = NoMove
    /\ running = TRUE
    /\ out = Response("", "", "")
    /\ trace = NoTrace
    /\ conv \in UNION { { [NoConv EXCEPT !.step = "sized", !.size = n,
                                            !.row = r, !.col = k] :
                                r \in {1, n}, k \in {1, n} } : n \in 2..MAXSIZE }

\* gogui-rules_legal_moves
LegalMovesCmd ==
    /\ running
    /\ out' = gogui_rules_legal_moves_cmd(SizedView)
    /\ running' = (out'.status = "=")
    /\ UNCHANGED <<board, moves_played, best_move, trace, conv>>

\* gogui-rules_final_result
FinalResultCmd ==
    /\ running
    /\ out' = Response("gogui-rules_final_result",
                        gogui_rules_final_result_cmd(SizedView), "")
    /\ UNCHANGED <<board, moves_played, best_move, running, trace, conv>>

SizeNext == LegalMovesCmd \/ FinalResultCmd

SizeSpec == SizeInit /\ [][SizeNext]_vars

-----------------------------------------------------------------------------
(* Command lines: get_cmd from the line read to the handler                *)

\* The names get_cmd finds a handler for.
commands ==
    { "protocol_version", "quit", "name", "boardsize", "showboard",
      "clear_board", "komi", "version", "known_command", "genmove",
      "list_commands", "play", "legal_moves", "gogui-rules_legal_moves",
      "gogui-rules_final_result", "gogui-rules_captured_count",
      "gogui-rules_game_id", "gogui-rules_board_size",
      "gogui-rules_side_to_move", "gogui-rules_board",
      "gogui-analyze_commands", "timelimit", "solve" }

\* Required number of arguments and the message when it is not met.
argmap ==
    [ boardsize |-> <<1, "Usage: boardsize INT">>,
      komi |-> <<1, "Usage: komi FLOAT">>,
      known_command |-> <<1, "Usage: known_command CMD_NAME">>,
      genmove |-> <<1, "Usage: genmove {w,b}">>,
      play |-> <<2, "Usage: play {b,w} MOVE">>,
      legal_moves |-> <<1, "Usage: legal_moves {w,b}">> ]

\* The characters str.split() and str.lstrip() take for white space.
whitespace == { " ", "\t", "\n", "\r" }

\* str.lstrip(chars)
RECURSIVE lstrip(_, _)
lstrip(s, chars) ==
    IF Len(s) > 0 /\ SubSeq(s, 1, 1) \in chars
    THEN lstrip(SubSeq(s, 2, Len(s)), chars)
    ELSE s

RECURSIVE rstrip(_, _)
rstrip(s, chars) ==
    IF Len(s) > 0 /\ SubSeq(s, Len(s), Len(s)) \in chars
    THEN rstrip(SubSeq(s, 1, Len(s) - 1), chars)
    ELSE s

\* str.strip(chars)
strip(s, chars) == rstrip(lstrip(s, chars), chars)

\* str.isdigit() of one character
isdigit(ch) == IndexOf(ch, digit_positions) > 0

\* re.sub("^\d+", "", command)
RECURSIVE sub_leading_digits(_)
sub_leading_digits(command) ==
    IF Len(command) > 0 /\ isdigit(SubSeq(command, 1, 1))
    THEN sub_leading_digits(SubSeq(command, 2, Len(command)))
    ELSE command

\* str.split(): the words between runs of white space
RECURSIVE split(_)
split(s) ==
    LET rest == lstrip(s, whitespace)
        stops == { i \in 1..Len(rest) : SubSeq(rest, i, i) \in whitespace }
        end == IF stops = {} THEN Len(rest) + 1
               ELSE CHOOSE i \in stops : \A j \in stops : i <= j
    IN  IF Len(rest) = 0 THEN << >>
        ELSE <<SubSeq(rest, 1, end - 1)>> \o split(SubSeq(rest, end, Len(rest)))

\* Mutant of has_arg_error: only too few arguments are an error.
has_arg_error_too_few(cmd, argnum) ==
    cmd \in DOMAIN argmap /\ argmap[cmd][1] > argnum

has_arg_error(cmd, argnum) ==
    cmd \in DOMAIN argmap /\ argmap[cmd][1] # argnum

\* Nothing is written to stdout.
NoResponse ==
    [ cmd |-> "", status |-> "", word |-> "", move |-> "", reason |-> "" ]

\* get_cmd(command) up to the call of the handler: the name of the handler
\* it calls ("" when it calls none) with the arguments, and what get_cmd
\* itself writes.
get_cmd(command) ==
    LET stripped == IF isdigit(SubSeq(command, 1, 1))
                    THEN lstrip(sub_leading_digits(command), whitespace)
                    ELSE command
        elements == split(stripped)
        command_name == elements[1]
        args == SubSeq(elements, 2, Len(elements))
        none(response) == [handler |-> "", args |-> << >>, out |-> response]
    IN  IF Len(strip(command, {" ", "\r", "\t"})) = 0 THEN none(NoResponse)
        ELSE IF SubSeq(command, 1, 1) = "#" THEN none(NoResponse)
        ELSE IF elements = << >> THEN none(NoResponse)
        ELSE IF has_arg_error(command_name, Len(args))
        THEN none(Error(command_name, argmap[command_name][2]))
        ELSE IF command_name \in commands
        THEN [handler |-> command_name, args |-> args, out |-> NoResponse]
        ELSE none(Error(command_name, "Unknown command"))

\* Lines as stdin.readline() returns them.  Lines get_cmd drops: empty,
\* white space, comments, a bare id.
IgnoredLines ==
    { "\n", "  \n", "\t\r\n", "#\n", "# play b a1\n", "#boardsize 7\n",
      "7\n", "12 \n" }

\* Lines whose first word is no command name.
UnknownLines ==
    { "foo\n", "Play b a1\n", "undo\n", "showcopy\n", "boardsize5\n",
      " # play b a1\n", "3 PLAY w a1\n", "play,b,a1\n" }

\* Lines that name a command with too few or too many arguments.
ArityLines ==
    { "play\n", "play b\n", "play b a1 print_move\n", "boardsize\n",
      "boardsize 5 5\n", "genmove\n", "genmove b w\n", "komi\n",
      "known_command\n", "legal_moves\n", "10 play b\n", "  play w\n" }

\* Lines that reach a handler, some with an id or white space in front.
DispatchedLines ==
    { "play b a1\n", "play w b1\n", "1 play w c1\n", "play b d1\n",
      "25play W c3\n", "  play b\tb2 \r\n", "play b a1x\n",
      "gogui-rules_captured_count\n", "4 gogui-rules_captured_count\n",
      "boardsize 5\n", "9 boardsize 26\n" }

Lines == IgnoredLines \cup UnknownLines \cup ArityLines \cup DispatchedLines

\* start_connection: one line is read and handed to get_cmd, which calls
\* the handler it finds.
GetCmd(line) ==
    LET d == get_cmd(line)
        played == play_cmd(board, d.args)
        resized == boardsize_cmd(board, moves_played, d.args[1])
    IN  /\ running
        /\ IF d.handler = "play"
           THEN /\ board' = played.board
                /\ moves_played' = IF played.played THEN moves_played + 1
                                    ELSE moves_played
                /\ out' = played.out
                /\ running' = running
           ELSE IF d.handler = "boardsize"
           THEN /\ board' = resized.board
                /\ moves_played' = resized.moves_played
                /\ out' = resized.out
                /\ running' = ~resized.raised
           ELSE IF d.handler = "gogui-rules_captured_count"
           THEN /\ out' = Response("gogui-rules_captured_count",
                                    captured_count(board), "")
                /\ UNCHANGED <<board, moves_played, running>>
           ELSE /\ d.handler = ""
                /\ out' = d.out
                /\ UNCHANGED <<board, moves_played, running>>
        /\ trace' = NoTrace
        /\ UNCHANGED <<best_move, conv>>

DispatchNext == \E line \in Lines : GetCmd(line)

DispatchSpec == Init /\ [][DispatchNext]_vars

-----------------------------------------------------------------------------
(* The rules of the game, stated without the code's helpers                *)

HasWon(b, c) == HasFive(b.grid, c) \/ b.captures[c] >= 10

BoardFull(b) == \A p \in Points : b.grid[p] # EMPTY

RulesOver(b) == HasWon(b, BLACK) \/ HasWon(b, WHITE) \/ BoardFull(b)

ColourName(c) == IF c = BLACK THEN "black" ELSE "white"

\* Brute-force minimax with the two players moving alternately: 1 when the
\* side to move wins, 0 for a draw, -1 when the opponent wins.
RECURSIVE Minimax(_)
Minimax(b) ==
    IF RulesOver(b)
    THEN IF HasWon(b, b.current_player) THEN 1
         ELSE IF HasWon(b, opponent(b.current_player)) THEN -1
         ELSE 0
    ELSE LET vals == { 0 - Minimax(play_move(b, m, b.current_player)) :
                          m \in get_empty_points(b) }
         IN  IF 1 \in vals THEN 1 ELSE IF 0 \in vals THEN 0 ELSE -1

MinimaxOutcome(b) ==
    LET v == Minimax(b)
    IN  IF v = 1 THEN ColourName(b.current_player)
        ELSE IF v = 0 THEN "draw"
        ELSE ColourName(opponent(b.current_player))

Max(S) == CHOOSE x \in S : \A y \in S : x >= y

\* Unpruned full-depth negamax over the search's own move generator, player
\* hand-over and leaf values.
RECURSIVE Negamax(_, _)
Negamax(b, current_player) ==
    IF game_over(b) THEN staticEvaluation(b, current_player)
    ELSE Max({ 0 - Negamax(child_board(b, m, current_player),
                           child_player(child_board(b, m, current_player))) :
                 m \in get_empty_points(b) })

Solved == out.cmd = "solve" /\ trace.called

\* The number of response blocks ("= ..." or "? ...") the last command
\* wrote: those of showcopy_cmd inside the search and the one of the
\* handler or of get_cmd.
written ==
    (IF trace.called THEN trace.ret.g.shown ELSE 0)
    + (IF out.status \in {"=", "?"} THEN 1 ELSE 0)

-----------------------------------------------------------------------------
(* Claims                                                                  *)

C2_SolveAgreesWithMinimax ==
    (Solved /\ ~RulesOver(board)) => out.word = MinimaxOutcome(board)

\* C3: the value run_alphaBeta returns at the root with the full window
\* equals the value of an unpruned negamax over the same move generator and
\* the same staticEvaluation leaf values.
C3_AlphaBetaEqualsNegamax ==
    Solved => trace.ret.value = Negamax(board, board.current_player)

C3_Witness ==
    /\ Solved
    /\ trace.ret.tuple
    /\ trace.ret.value = 1000
    /\ trace.ret.g.expanded >= 3

\* C4: solve on an already terminal position returns at once with the known
\* outcome: no move is expanded, no fault is raised and the response names
\* the outcome.
C4_TerminalSolveAnswers ==
    (Solved /\ RulesOver(board)) =>
        /\ trace.ret.g.expanded = 0
        /\ out.word # "fault"
        /\ out.word = gogui_rules_final_result(board)

\* C5: the solve response carries a move only when the reported outcome is
\* the side to move or a draw, and when the opponent of the side to move
\* wins the response is the opponent's colour name with no move.
C5_MoveOnlyForMoverOrDraw ==
    Solved =>
        /\ out.move # "" =>
               out.word \in {"draw", ColourName(board.current_player)}
        /\ Minimax(board) = -1 =>
               /\ out.word = ColourName(opponent(board.current_player))
               /\ out.move = ""

\* C6: the move returned by the root frame is a candidate move of the root
\* position (an empty point), is a root child whose negated value equals
\* the returned value, and was chosen by the root frame, not a deeper one.
C6_RootMoveIsRootChoice ==
    (Solved /\ trace.ret.tuple) =>
        /\ trace.ret.move \in get_empty_points(board)
        /\ trace.ret.value =
               0 - Negamax(child_board(board, trace.ret.move, board.current_player),
                           child_player(child_board(board, trace.ret.move,
                                                    board.current_player)))
        /\ trace.ret.g.bmd = 0

\* C7: along every line of the search the mover alternates: the colour that
\* places a stone in a child frame is the opponent of the colour that
\* placed the stone in its parent frame.
C7_MoversAlternate ==
    Solved => \A pc \in trace.ret.g.movers : pc[2] = opponent(pc[1])

\* C8: staticEvaluation is only invoked on states for which game_over holds.
C8_EvaluatesTerminalOnly ==
    Solved => \A over \in trace.ret.g.evalOn : over

C8_Witness ==
    /\ Solved
    /\ trace.ret.g.expanded >= 3
    /\ TRUE \in trace.ret.g.evalOn

\* C9: from a non-terminal position the root value is a win, draw or loss
\* sentinel (or its negation); the placeholder 1 (or -1) and the initial
\* window bounds 10000, -10000 never surface.
C9_RootValueIsSentinel ==
    (Solved /\ ~game_over(board)) =>
        /\ trace.ret.value \in {-1000, -10, 0, 10, 1000}
        /\ trace.ret.value \notin {1, -1, INFINITY, 0 - INFINITY}

C9_Witness ==
    /\ Solved
    /\ ~game_over(board)
    /\ trace.ret.value = -1000

\* C10 as stated: game_over holds exactly when the rules end the game, and
\* the final result is a colour exactly when that colour has won, "draw"
\* exactly when nobody has won and the board is full, "unknown" exactly
\* when game_over is false.
C10_AsClaimed ==
    /\ game_over(board) <=> RulesOver(board)
    /\ gogui_rules_final_result(board) = "black" <=> HasWon(board, BLACK)
    /\ gogui_rules_final_result(board) = "white" <=> HasWon(board, WHITE)
    /\ gogui_rules_final_result(board) = "draw" <=>
           (~HasWon(board, BLACK) /\ ~HasWon(board, WHITE) /\ BoardFull(board))
    /\ gogui_rules_final_result(board) = "unknown" <=> ~game_over(board)

\* C10 (amended): game_over holds exactly when the rules end the game; the
\* final result names a colour only when that colour has won, names the
\* colour that alone has won, and names one of the two when both have won
\* (play continued after the end); "draw" exactly when nobody has won and
\* the board is full; "unknown" exactly when game_over is false.
C10_FinalResultFollowsRules ==
    LET result == gogui_rules_final_result(board)
        black == HasWon(board, BLACK)
        white == HasWon(board, WHITE)
    IN  /\ game_over(board) <=> RulesOver(board)
        /\ result = "black" => black
        /\ result = "white" => white
        /\ (black /\ ~white) => result = "black"
        /\ (white /\ ~black) => result = "white"
        /\ (black /\ white) => result \in {"black", "white"}
        /\ result = "draw" <=> (~black /\ ~white /\ BoardFull(board))
        /\ result = "unknown" <=> ~game_over(board)

C10_Witness ==
    /\ HasFive(board.grid, BLACK)
    /\ HasFive(board.grid, WHITE)
    /\ game_over(board)
    /\ gogui_rules_final_result(board) = "black"

\* C11: a play command that names an occupied point, a malformed or
\* off-board coordinate, or a colour other than b/w is answered with
\* 'illegal move' and a reason, and leaves the grid, the capture counters
\* and the player to move unchanged.
C11_IllegalPlayRejected ==
    LET occupied == { p \in FreePlayPoints : board.grid[p] # EMPTY }
    IN  \A args \in BadPlayArgs
                   \cup { <<c, format_point(point_to_coord(p, size))>> :
                             c \in {"b", "W"}, p \in occupied } :
            LET r == play_cmd(board, args)
            IN  /\ r.out.word = "illegal move"
                /\ r.out.reason # ""
                /\ r.board = board
                /\ ~r.played

C11_Witness ==
    /\ out.cmd = "play"
    /\ out.word = "illegal move"
    /\ out.reason = "wrong coordinate"
    /\ board.captures[WHITE] > 0

C13_FaultSurfacedLoopAlive ==
    out.word = "fault" => (out.status = "?" /\ running)

\* C14: for every board size 2..25 and every coordinate on the board,
\* format_point gives the column letter (A-Z without I) followed by the row
\* and move_to_coord gives the coordinate back; move_to_coord refuses the
\* column letter i and every coordinate beyond the board.
C14_CoordRoundTrip ==
    LET onboard == conv.row <= conv.size /\ conv.col <= conv.size
    IN  /\ (conv.step \in {"formatted", "parsed"} /\ onboard) =>
               conv.text = column_letters[conv.col] \o ToString(conv.row)
        /\ (conv.step = "parsed" /\ onboard) =>
               conv.back = Coord(conv.row, conv.col)
        /\ (conv.step = "parsed" /\ ~onboard) => ~conv.back.ok
        /\ conv.step = "parsed_i" => ~conv.back.ok

\* C15: genmove answers 'pass' only when no point is empty, answers
\* 'resign' and plays nothing when the opponent already has a five in a row
\* or at least 10 captures, and otherwise places exactly one stone of the
\* colour on a point that was empty; on 'pass' and 'resign' the board is
\* unchanged.
C15_GenmoveAsClaimed ==
    \A c \in {"b", "w"} : \A move \in genmove_choices(board) :
        LET color == color_to_int(c)
            r == genmove_cmd(board, c, move)
            word == r.out.word
            stones(b) == { p \in Points : b.grid[p] = color }
        IN  /\ word = "pass" => get_empty_points(board) = {}
            /\ HasWon(board, opponent(color)) => word = "resign"
            /\ word \in {"pass", "resign"} => (r.board = board /\ ~r.played)
            /\ word \notin {"pass", "resign"} =>
                   /\ r.played
                   /\ board.grid[move] = EMPTY
                   /\ word = lower(format_point(point_to_coord(move, size)))
                   /\ stones(r.board) = stones(board) \cup {move}

\* C16: solve never answers 'unknown': from every position reachable by
\* play the response is 'black', 'white' or 'draw', and it carries a move
\* only when the outcome is the side to move or a draw.
C16_SolveAnswersOutcome ==
    Solved =>
        /\ out.status = "="
        /\ out.word \in {"black", "white", "draw"}
        /\ out.move # "" =>
               out.word \in {"draw", ColourName(board.current_player)}

\* C17: playing a legal move and undoing it restores the prior state: every
\* grid cell, both capture counters, the player to move and the length of
\* the move history.
C17_PlayUndoRestores ==
    \A p \in get_empty_points(board) :
        LET played == play_move(board, p, board.current_player)
            undone == undoMove(played, <<p>>)
        IN  /\ undone.board = board
            /\ Len(undone.moves) = 0

\* C18: the search terminates: every frame below the root that expands
\* moves has a positive Rank smaller than its parent's, although captures
\* put empty points back, so no line is longer than the Rank of the root
\* and the root call returns.
C18_SearchTerminates ==
    Solved =>
        /\ trace.ret.g.descends
        /\ trace.ret.g.deepest <= Rank(board)

C18_Witness ==
    /\ Solved
    /\ trace.ret.tuple
    /\ trace.ret.g.deepest > Cardinality(get_empty_points(board))

\* C19: the capture count query answers two integers, white's captures
\* first and black's second, each the board's counter for that colour.
C19_CapturedCountWhiteFirst ==
    out.cmd = "gogui-rules_captured_count" =>
        /\ out.status = "="
        /\ out.word = ToString(board.captures[WHITE]) \o " "
                                \o ToString(board.captures[BLACK])

C19_Witness ==
    /\ out.cmd = "gogui-rules_captured_count"
    /\ board.captures[WHITE] > board.captures[BLACK]
    /\ board.captures[BLACK] > 0

C21_BetaCutoffPrunes ==
    Solved =>
        /\ ~trace.ret.g.late
        /\ \A pr \in trace.ret.g.cutoffs : pr[2] = pr[1]

C21_Witness ==
    /\ Solved
    /\ trace.ret.g.cutoffs # {}
    /\ trace.ret.g.pruned >= 2

C24_FailHard ==
    Solved =>
        /\ trace.ret.g.windows
        /\ trace.ret.g.failhard
        /\ trace.ret.g.alphaok

C24_Witness ==
    /\ Solved
    /\ trace.ret.tuple
    /\ trace.ret.g.cutoffs # {}
    /\ trace.ret.g.bmd >= 0
    /\ trace.ret.alpha > 0 - INFINITY
    /\ trace.ret.g.expanded >= 3

\* C23: a line that is empty, a comment, an unknown command name or a known
\* command with the wrong number of arguments reaches no handler and
\* changes nothing of the board; the unknown name and the wrong number of
\* arguments are each answered with an error response; and a numeric id in
\* front of a line is stripped before the name is looked up.
C23_BadLinesReachNoHandler ==
    /\ \A line \in IgnoredLines \cup UnknownLines \cup ArityLines :
           get_cmd(line).handler = ""
    /\ \A line \in UnknownLines :
           /\ get_cmd(line).out.status = "?"
           /\ get_cmd(line).out.word = "Unknown command"
    /\ \A line \in ArityLines :
           /\ get_cmd(line).out.status = "?"
           /\ get_cmd(line).out.word = argmap[get_cmd(line).out.cmd][2]
    /\ \A line \in UnknownLines \cup ArityLines \cup DispatchedLines :
           ~isdigit(SubSeq(line, 1, 1)) =>
               /\ get_cmd("12 " \o line) = get_cmd(line)
               /\ get_cmd("7" \o line) = get_cmd(line)
    /\ [][(out'.status = "?" \/ out' = NoResponse) =>
              UNCHANGED <<board, moves_played, best_move, running>>]_vars

C23_Witness ==
    /\ out.status = "?"
    /\ out.cmd = "play"
    /\ board.captures[BLACK] = 2
    /\ moves_played >= 4

\* C25: every command that reaches a handler writes exactly one response
\* before the next command is read; solve writes a single response, after
\* the search, and none while the search runs.
C25_OneResponsePerCommand ==
    /\ out.cmd # "" => written = 1
    /\ Solved => trace.ret.g.shown = 0

\* C26: in every reachable state the legal-move query and the final-result
\* query agree: gogui-rules_legal_moves answers an empty list exactly when
\* gogui-rules_final_result is not "unknown", and otherwise answers exactly
\* the empty points of the board.  Stated for the live 5x5 board and for
\* the board of the state whose size and stone conv holds.
C26_LegalMovesMatchResult ==
    LET texts(view) ==
            { column_letters[p % (view.size + 1)]
                  \o ToString(p \div (view.size + 1)) : p \in view.empty_points }
        agree(view, answer) ==
            LET result == gogui_rules_final_result_cmd(view)
            IN  /\ answer.status = "="
                /\ answer.moves = {} <=> result # "unknown"
                /\ result = "unknown" => answer.moves = texts(view)
    IN  /\ agree(BoardView(board), gogui_rules_legal_moves(board))
        /\ out.cmd = "gogui-rules_legal_moves" => agree(SizedView, out)

=============================================================================
